---------------------------- MODULE Spec2Model ----------------------------
(***************************************************************************)
(* A model of process_task_dag.py: the topological sequencer               *)
(* (topological_sort), the construction of a TaskDAG from a raw mapping    *)
(* (TaskDAG.__init__, add_task, Task.add_dependency), pruning              *)
(* (remove_inactive_tasks, delete_task, Task.delete) and the declarative   *)
(* form (to_dict).                                                         *)
(*                                                                         *)
(* Task objects live in a heap (the sequence `tasks`); an object is its    *)
(* index in the heap, so that two Task objects with the same name are      *)
(* different objects, as in Python.  The dictionary names_to_obj maps      *)
(* names to objects.  A client program builds one graph from a raw         *)
(* mapping and then either prunes it once more or builds a second graph    *)
(* from the first one's to_dict().                                         *)
(***************************************************************************)
EXTENDS Integers, Sequences, FiniteSets, TLC

\* The task names of the inputs are 1..MaxNames.
MaxNames == 3
\* The longest "deps" list of an input.
MaxDeps == 2

Names == 1..MaxNames

\* GRAY, BLACK = 0, 1
GRAY == 0
BLACK == 1

\* The status values the inputs carry. A task whose data has no "status" is
\* an active one.
StatusValues == {"done", "failed"}

\* A Python dict with no keys.
EmptyDict == [k \in {} |-> 0]

\* dict.get(key, default)
Get(d, key, default) == IF key \in DOMAIN d THEN d[key] ELSE default

\* The "data" objects of the inputs. A body without the key "data" gives the
\* task the data {}, which to_dict() hands on as it is.
DataValues == {[status |-> s] : s \in StatusValues}

\* The "deps" lists of the inputs: up to MaxDeps names, repeats allowed,
\* names that are no key of the mapping allowed.
DepsValues == UNION {[1..n -> Names] : n \in 0..MaxDeps}

\* A task body: a dict whose keys are among "deps" and "data"
\* (validate_task_dag), each of them optional.
Bodies ==
    {EmptyDict}
      \cup {[deps |-> d] : d \in DepsValues}
      \cup {[data |-> x] : x \in DataValues}
      \cup {[deps |-> d, data |-> x] : d \in DepsValues, x \in DataValues}

\* The raw mappings: a dict from some of the names to bodies.
Inputs == UNION {[K -> Bodies] : K \in SUBSET Names}

VARIABLES
    tasks_structure,  \* the raw mapping given to TaskDAG(...)
    pc,               \* where the client program is
    run,              \* "first", "reprune" or "rebuild": what the client is doing
    err,              \* the exception that ended construction, or "none"
    order,            \* topological_sort: the deque order
    enter,            \* topological_sort: the set enter
    state,            \* topological_sort: the dict state
    stack,            \* topological_sort: the frames of dfs, innermost last
    pos,              \* TaskDAG.__init__: how many of sorted_tasks are handled
    tasks,            \* the heap of Task objects
    names_to_obj,     \* TaskDAG.names_to_obj of the graph being built
    inactive_tasks,   \* remove_inactive_tasks: the tasks still to delete
    first_graph       \* names_to_obj of the first graph, once a second is built

vars == <<tasks_structure, pc, run, err, order, enter, state, stack, pos,
          tasks, names_to_obj, inactive_tasks, first_graph>>

-----------------------------------------------------------------------------
(* Lists *)

\* A remove(x) that takes every x out of the list.
RemoveAll(s, x) ==
    LET Other(y) == y # x IN SelectSeq(s, Other)

\* A remove(x) that drops the head of the list, whatever it is.
RemoveHead(s, x) == Tail(s)

\* list.remove(x): the list without its first x.
RECURSIVE Remove(_, _)
Remove(s, x) ==
    IF s = <<>> THEN <<>>
    ELSE IF Head(s) = x THEN Tail(s)
    ELSE <<Head(s)>> \o Remove(Tail(s), x)

\* A reverse() that leaves the deque as it is.
ReverseForgotten(s) == s

\* deque.reverse()
Reverse(s) == [i \in 1..Len(s) |-> s[Len(s) + 1 - i]]

Range(s) == {s[i] : i \in 1..Len(s)}

\* How many times x occurs in s.
Count(s, x) == Cardinality({i \in 1..Len(s) : s[i] = x})


\* d[key] = value
Put(d, key, value) ==
    [k \in DOMAIN d \cup {key} |-> IF k = key THEN value ELSE d[k]]

\* A del that leaves the key in the dict.
DelForgotten(d, key) == d

\* del d[key]
Del(d, key) == [k \in DOMAIN d \ {key} |-> d[k]]

-----------------------------------------------------------------------------
(* topological_sort *)

\* dfs: the deps it walks for a node: graph[node]["deps"] when the node is a
\* key of the graph and has the key "deps", and () otherwise.
DfsDeps(graph, node) ==
    IF node \in DOMAIN graph /\ "deps" \in DOMAIN graph[node]
    THEN graph[node]["deps"]
    ELSE <<>>

\* A frame of dfs: the node and the index of the next of its deps.
Frame(node) == [node |-> node, i |-> 1]

Top == stack[Len(stack)]

Pop(s) == SubSeq(s, 1, Len(s) - 1)

\* The frames with the innermost one moved to its next dep.
Advance(s) == [s EXCEPT ![Len(s)].i = @ + 1]

\* A test for GRAY that never holds.
IsGrayNever(st, k) == FALSE

\* A test for GRAY that takes every entered name, BLACK ones too, as being
\* walked.
IsGrayOrBlack(st, k) == k \in DOMAIN st

\* sk == GRAY, for sk = state.get(k, None)
IsGray(st, k) == k \in DOMAIN st /\ st[k] = GRAY

\* A test for BLACK that takes every entered name, GRAY ones too, as done.
IsBlackOrGray(st, k) == k \in DOMAIN st

\* sk == BLACK
IsBlack(st, k) == k \in DOMAIN st /\ st[k] = BLACK

\* dfs: the words of the message of the ValueError it raises, a literal
\* with nothing formatted into it.
cycle_message ==
    <<"Error.", "Graph", "contains", "cycle.", "Not", "a", "DAG.">>

Init ==
    /\ tasks_structure \in Inputs
    /\ pc = "sort"
    /\ run = "first"
    /\ err = "none"
    /\ order = <<>>
    /\ enter = DOMAIN tasks_structure
    /\ state = EmptyDict
    /\ stack = <<>>
    /\ pos = 0
    /\ tasks = <<>>
    /\ names_to_obj = EmptyDict
    /\ inactive_tasks = {}
    /\ first_graph = EmptyDict

\* while enter: dfs(enter.pop()) -- the set pops any of its names.
SortPop ==
    /\ pc = "sort"
    /\ stack = <<>>
    /\ enter # {}
    /\ \E n \in enter :
        /\ enter' = enter \ {n}
        /\ state' = Put(state, n, GRAY)
        /\ stack' = <<Frame(n)>>
    /\ UNCHANGED <<tasks_structure, pc, run, err, order, pos, tasks,
                   names_to_obj, inactive_tasks, first_graph>>

\* dfs: the next dep k is GRAY: raise ValueError. The exception leaves
\* topological_sort and TaskDAG.__init__: no graph is returned.
DfsCycle ==
    /\ pc = "sort"
    /\ stack # <<>>
    /\ Top.i <= Len(DfsDeps(tasks_structure, Top.node))
    /\ IsGray(state, DfsDeps(tasks_structure, Top.node)[Top.i])
    /\ pc' = "error"
    /\ err' = "ValueError: Graph contains cycle"
    /\ UNCHANGED <<tasks_structure, run, order, enter, state, stack, pos,
                   tasks, names_to_obj, inactive_tasks, first_graph>>

\* dfs: the next dep k is BLACK: continue.
DfsSkip ==
    /\ pc = "sort"
    /\ stack # <<>>
    /\ Top.i <= Len(DfsDeps(tasks_structure, Top.node))
    /\ IsBlack(state, DfsDeps(tasks_structure, Top.node)[Top.i])
    /\ stack' = Advance(stack)
    /\ UNCHANGED <<tasks_structure, pc, run, err, order, enter, state, pos,
                   tasks, names_to_obj, inactive_tasks, first_graph>>

\* A descent of dfs without enter.discard(k).
DfsDescendNoDiscard ==
    /\ pc = "sort"
    /\ stack # <<>>
    /\ Top.i <= Len(DfsDeps(tasks_structure, Top.node))
    /\ LET k == DfsDeps(tasks_structure, Top.node)[Top.i] IN
        /\ ~IsGray(state, k)
        /\ ~IsBlack(state, k)
        /\ state' = Put(state, k, GRAY)
        /\ stack' = Append(Advance(stack), Frame(k))
    /\ UNCHANGED <<tasks_structure, pc, run, err, order, enter, pos, tasks,
                   names_to_obj, inactive_tasks, first_graph>>

\* dfs: the next dep k has no state: enter.discard(k); dfs(k).
DfsDescend ==
    /\ pc = "sort"
    /\ stack # <<>>
    /\ Top.i <= Len(DfsDeps(tasks_structure, Top.node))
    /\ LET k == DfsDeps(tasks_structure, Top.node)[Top.i] IN
        /\ ~IsGray(state, k)
        /\ ~IsBlack(state, k)
        /\ enter' = enter \ {k}
        /\ state' = Put(state, k, GRAY)
        /\ stack' = Append(Advance(stack), Frame(k))
    /\ UNCHANGED <<tasks_structure, pc, run, err, order, pos, tasks,
                   names_to_obj, inactive_tasks, first_graph>>

\* A return of dfs that leaves the node GRAY.
DfsReturnStaysGray ==
    /\ pc = "sort"
    /\ stack # <<>>
    /\ Top.i > Len(DfsDeps(tasks_structure, Top.node))
    /\ order' = <<Top.node>> \o order
    /\ stack' = Pop(stack)
    /\ UNCHANGED <<tasks_structure, pc, run, err, enter, state, pos, tasks,
                   names_to_obj, inactive_tasks, first_graph>>

\* dfs: the deps are walked: order.appendleft(node); state[node] = BLACK.
DfsReturn ==
    /\ pc = "sort"
    /\ stack # <<>>
    /\ Top.i > Len(DfsDeps(tasks_structure, Top.node))
    /\ order' = <<Top.node>> \o order
    /\ state' = Put(state, Top.node, BLACK)
    /\ stack' = Pop(stack)
    /\ UNCHANGED <<tasks_structure, pc, run, err, enter, pos, tasks,
                   names_to_obj, inactive_tasks, first_graph>>

\* topological_sort returns order; TaskDAG.__init__ reverses it in place.
SortReturn ==
    /\ pc = "sort"
    /\ stack = <<>>
    /\ enter = {}
    /\ order' = Reverse(order)
    /\ pos' = 0
    /\ pc' = "build"
    /\ UNCHANGED <<tasks_structure, run, err, enter, state, stack, tasks,
                   names_to_obj, inactive_tasks, first_graph>>

-----------------------------------------------------------------------------
(* Task *)

\* Task.__init__(name, body)
Task(name, body) ==
    [name |-> name,
     data |-> Get(body, "data", EmptyDict),
     dependencies |-> <<>>,
     predications |-> <<>>]

\* An add_dependency that leaves out the back reference.
add_dependency_one_way(heap, self, other_task) ==
    [heap EXCEPT ![self].dependencies = Append(@, other_task)]

\* Task.add_dependency: self.dependencies.append(other_task);
\* other_task.predications.append(self). The result is the heap.
add_dependency(heap, self, other_task) ==
    LET h1 == [heap EXCEPT ![self].dependencies = Append(@, other_task)]
    IN  [h1 EXCEPT ![other_task].predications = Append(@, self)]

\* The outcome of a step that may raise: the heap as the step left it, and
\* whether it ended without an exception.
Outcome(heap, ok) == [heap |-> heap, ok |-> ok]

\* A first loop of Task.delete that does nothing.
delete_from_predications_skipped(heap, self, preds) ==
    [heap |-> heap, ok |-> TRUE]

\* A first loop of Task.delete that ends after its first round.
delete_from_predications_first_only(heap, self, preds) ==
    IF preds = <<>> THEN [heap |-> heap, ok |-> TRUE]
    ELSE IF self \notin Range(heap[Head(preds)].dependencies)
         THEN [heap |-> heap, ok |-> FALSE]
         ELSE [heap |-> [heap EXCEPT ![Head(preds)].dependencies =
                                        Remove(@, self)],
               ok |-> TRUE]

\* Task.delete, its first loop: for predicate in self.predications:
\* predicate.dependencies.remove(self). list.remove raises ValueError when
\* self is not in the list.
RECURSIVE delete_from_predications(_, _, _)
delete_from_predications(heap, self, preds) ==
    IF preds = <<>> THEN Outcome(heap, TRUE)
    ELSE IF self \notin Range(heap[Head(preds)].dependencies)
         THEN Outcome(heap, FALSE)
         ELSE delete_from_predications(
                  [heap EXCEPT ![Head(preds)].dependencies = Remove(@, self)],
                  self, Tail(preds))

\* Task.delete, its second loop: for dependant in self.dependencies:
\* dependant.predications.remove(self)
RECURSIVE delete_from_dependencies(_, _, _)
delete_from_dependencies(heap, self, deps) ==
    IF deps = <<>> THEN Outcome(heap, TRUE)
    ELSE IF self \notin Range(heap[Head(deps)].predications)
         THEN Outcome(heap, FALSE)
         ELSE delete_from_dependencies(
                  [heap EXCEPT ![Head(deps)].predications = Remove(@, self)],
                  self, Tail(deps))

\* Task.delete: the two loops, the second on the heap the first one left.
delete(heap, self) ==
    LET r1 == delete_from_predications(heap, self, heap[self].predications)
    IN  IF ~r1.ok THEN r1
        ELSE delete_from_dependencies(r1.heap, self,
                                      r1.heap[self].dependencies)

-----------------------------------------------------------------------------
(* TaskDAG *)

\* A loop over a task's deps that takes a dep that is no key of the input
\* for an error.
RECURSIVE add_dependencies_known_only(_, _, _, _)
add_dependencies_known_only(heap, index, task, deps) ==
    IF deps = <<>> THEN [heap |-> heap, ok |-> TRUE]
    ELSE IF Head(deps) \notin DOMAIN index
              \/ Head(deps) \notin DOMAIN tasks_structure
         THEN [heap |-> heap, ok |-> FALSE]
         ELSE add_dependencies_known_only(
                  [heap EXCEPT
                      ![task].dependencies = Append(@, index[Head(deps)]),
                      ![index[Head(deps)]].predications = Append(@, task)],
                  index, task, Tail(deps))

\* TaskDAG.__init__, the loop over a task's deps:
\* task.add_dependency(self.names_to_obj[dep]); the lookup raises KeyError
\* for a name that is not in names_to_obj.
RECURSIVE add_dependencies(_, _, _, _)
add_dependencies(heap, index, task, deps) ==
    IF deps = <<>> THEN Outcome(heap, TRUE)
    ELSE IF Head(deps) \notin DOMAIN index
         THEN Outcome(heap, FALSE)
         ELSE add_dependencies(
                  add_dependency(heap, task, index[Head(deps)]),
                  index, task, Tail(deps))

\* A go_down that stops at the task's own dependencies.
go_down_one_level(heap, task) == Append(heap[task].dependencies, task)

\* remove_inactive_tasks.go_down: the task's dependencies, walked
\* recursively with no visited set, then the task itself.
RECURSIVE go_down(_, _)
RECURSIVE go_down_all(_, _)
go_down(heap, task) ==
    Append(go_down_all(heap, heap[task].dependencies), task)
go_down_all(heap, deps) ==
    IF deps = <<>> THEN <<>>
    ELSE go_down(heap, Head(deps)) \o go_down_all(heap, Tail(deps))

\* task.data.get("status", "") in ("done", "failed")
is_inactive(task) == Get(task.data, "status", "") \in {"done", "failed"}

\* remove_inactive_tasks, its first loop: the set inactive_tasks.
collect_inactive(heap, index) ==
    UNION {Range(go_down(heap, index[n])) :
              n \in {m \in DOMAIN index : is_inactive(heap[index[m]])}}

\* A to_dict that lists the dependents of a task as its deps.
to_dict_of_predications(heap, index) ==
    [tname \in DOMAIN index |->
        [deps |-> [i \in 1..Len(heap[index[tname]].predications) |->
                      heap[heap[index[tname]].predications[i]].name],
         data |-> heap[index[tname]].data]]

\* TaskDAG.to_dict
to_dict(heap, index) ==
    [tname \in DOMAIN index |->
        [deps |-> [i \in 1..Len(heap[index[tname]].dependencies) |->
                      heap[heap[index[tname]].dependencies[i]].name],
         data |-> heap[index[tname]].data]]

\* The keys of names_to_obj in the order a Python dict walks them, which is
\* the order in which add_task put them in: the tasks are numbered as they
\* are made, so it is the order of the tasks they hold.
RECURSIVE keys_of(_, _)
keys_of(index, left) ==
    IF left = {} THEN <<>>
    ELSE LET first == CHOOSE n \in left :
                          \A m \in left : index[n] <= index[m]
         IN  <<first>> \o keys_of(index, left \ {first})

keys(index) == keys_of(index, DOMAIN index)

\* TaskDAG.get_all_tasks: names_to_obj.values()
get_all_tasks(index) == [i \in 1..Len(keys(index)) |-> index[keys(index)[i]]]

\* Task.depends: bool(self.dependencies)
depends(task) == task.dependencies # <<>>

\* Task.predicts: bool(self.predications)
predicts(task) == task.predications # <<>>

\* A find_current_tasks that tests the dependents of a task.
find_current_tasks_by_predications(heap, index) ==
    LET Free(t) == heap[t].predications = <<>>
    IN  SelectSeq(get_all_tasks(index), Free)

\* TaskDAG.find_current_tasks
find_current_tasks(heap, index) ==
    LET Free(t) == ~depends(heap[t])
    IN  SelectSeq(get_all_tasks(index), Free)

\* TaskDAG.find_final_tasks
find_final_tasks(heap, index) ==
    LET Last(t) == ~predicts(heap[t])
    IN  SelectSeq(get_all_tasks(index), Last)

\* translate_to_dot: task_names_to_ids_mapping, "task_{i}" for the i-th key
\* of to_dict(), counted from 0.
task_names_to_ids_mapping(heap, index) ==
    [task_name \in DOMAIN to_dict(heap, index) |->
        <<"task_", (CHOOSE i \in 1..Len(keys(index)) :
                       keys(index)[i] = task_name) - 1>>]

\* translate_to_dot: the edge statements written for one task, one for
\* every entry of its deps.
dot_edges(ids, task_name, deps) ==
    [i \in 1..Len(deps) |->
        [kind |-> "edge", from |-> ids[deps[i]], to |-> ids[task_name]]]

\* translate_to_dot: the statements written for the keys ks, in their
\* order: the node statement of a task, then its edge statements.
RECURSIVE dot_code(_, _, _)
dot_code(task_dag, ids, ks) ==
    IF ks = <<>> THEN <<>>
    ELSE <<[kind |-> "node",
            id |-> ids[Head(ks)],
            label |-> Head(ks),
            params |-> task_dag[Head(ks)].data]>>
         \o dot_edges(ids, Head(ks), task_dag[Head(ks)].deps)
         \o dot_code(task_dag, ids, Tail(ks))

\* TaskDAG.translate_to_dot: the statements between the head and the foot of
\* the template.
translate_to_dot(heap, index) ==
    dot_code(to_dict(heap, index),
             task_names_to_ids_mapping(heap, index),
             keys(index))

\* A print_orphan_nodes that gathers the deps of the done or failed tasks
\* only.
print_orphan_nodes_of_finished(data) ==
    LET deps_all ==
            UNION {Range(Get(data[n], "deps", <<>>)) :
                      n \in {m \in DOMAIN data : "data" \in DOMAIN data[m]}}
    IN  {n \in DOMAIN data : n \notin deps_all}

\* print_orphan_nodes: the names it prints. deps_all is the set of the
\* names in the deps lists of all tasks, joined end to end.
print_orphan_nodes(data) ==
    LET deps_all ==
            UNION {Range(Get(data[n], "deps", <<>>)) : n \in DOMAIN data}
    IN  {n \in DOMAIN data : n \notin deps_all}

\* One round of the loop of TaskDAG.__init__: add_task, then add_dependency
\* for every dep of the task.
BuildTask ==
    /\ pc = "build"
    /\ pos < Len(order)
    /\ LET task_name == order[pos + 1]
           task_body == Get(tasks_structure, task_name, EmptyDict)
           task == Len(tasks) + 1
           index == Put(names_to_obj, task_name, task)
           r == add_dependencies(Append(tasks, Task(task_name, task_body)),
                                 index, task,
                                 Get(task_body, "deps", <<>>))
       IN  /\ tasks' = r.heap
           /\ names_to_obj' = index
           /\ IF r.ok
              THEN /\ pos' = pos + 1
                   /\ UNCHANGED <<pc, err>>
              ELSE /\ pc' = "error"
                   /\ err' = "KeyError: names_to_obj[dep]"
                   /\ UNCHANGED pos
    /\ UNCHANGED <<tasks_structure, run, order, enter, state, stack,
                   inactive_tasks, first_graph>>

\* The loop of TaskDAG.__init__ is over: self.remove_inactive_tasks(), whose
\* first loop fills inactive_tasks.
BuildDone ==
    /\ pc = "build"
    /\ pos = Len(order)
    /\ inactive_tasks' = collect_inactive(tasks, names_to_obj)
    /\ pc' = "prune"
    /\ UNCHANGED <<tasks_structure, run, err, order, enter, state, stack,
                   pos, tasks, names_to_obj, first_graph>>

\* remove_inactive_tasks, one round of its second loop, which walks the set
\* in any order: delete_task(task) is task.delete() and then
\* del self.names_to_obj[task.name].
DeleteTask ==
    /\ pc = "prune"
    /\ \E task \in inactive_tasks :
        LET r == delete(tasks, task) IN
        /\ tasks' = r.heap
        /\ IF ~r.ok
           THEN /\ pc' = "error"
                /\ err' = "ValueError: list.remove(x): x not in list"
                /\ UNCHANGED <<names_to_obj, inactive_tasks>>
           ELSE IF tasks[task].name \notin DOMAIN names_to_obj
           THEN /\ pc' = "error"
                /\ err' = "KeyError: del names_to_obj[task.name]"
                /\ UNCHANGED <<names_to_obj, inactive_tasks>>
           ELSE /\ names_to_obj' = Del(names_to_obj, tasks[task].name)
                /\ inactive_tasks' = inactive_tasks \ {task}
                /\ UNCHANGED <<pc, err>>
    /\ UNCHANGED <<tasks_structure, run, order, enter, state, stack, pos,
                   first_graph>>

\* remove_inactive_tasks returns, and with it TaskDAG.__init__ or the
\* client's own call of it.
PruneReturn ==
    /\ pc = "prune"
    /\ inactive_tasks = {}
    /\ pc' = "done"
    /\ UNCHANGED <<tasks_structure, run, err, order, enter, state, stack,
                   pos, tasks, names_to_obj, inactive_tasks, first_graph>>

-----------------------------------------------------------------------------
(* The client *)

\* The client calls remove_inactive_tasks() on the graph it was given.
PruneAgain ==
    /\ pc = "done"
    /\ run = "first"
    /\ run' = "reprune"
    /\ inactive_tasks' = collect_inactive(tasks, names_to_obj)
    /\ pc' = "prune"
    /\ UNCHANGED <<tasks_structure, err, order, enter, state, stack, pos,
                   tasks, names_to_obj, first_graph>>

\* The client calls TaskDAG(td.to_dict()): a second graph, of new Task
\* objects; the first graph stays as it is.
Rebuild ==
    /\ pc = "done"
    /\ run = "first"
    /\ run' = "rebuild"
    /\ first_graph' = names_to_obj
    /\ tasks_structure' = to_dict(tasks, names_to_obj)
    /\ names_to_obj' = EmptyDict
    /\ order' = <<>>
    /\ enter' = DOMAIN to_dict(tasks, names_to_obj)
    /\ state' = EmptyDict
    /\ pos' = 0
    /\ pc' = "sort"
    /\ UNCHANGED <<err, stack, tasks, inactive_tasks>>

Next ==
    \/ SortPop
    \/ DfsCycle
    \/ DfsSkip
    \/ DfsDescend
    \/ DfsReturn
    \/ SortReturn
    \/ BuildTask
    \/ BuildDone
    \/ DeleteTask
    \/ PruneReturn
    \/ PruneAgain
    \/ Rebuild

Spec == Init /\ [][Next]_vars

\* The program is one thread that runs on while it has a step to take.
FairSpec == Spec /\ WF_vars(Next)

-----------------------------------------------------------------------------
(* What the claims speak of *)

\* The tasks held in the graph's name index.
Held == {names_to_obj[n] : n \in DOMAIN names_to_obj}

\* The deps a raw mapping lists for a name.
Listed(g, n) ==
    IF n \in DOMAIN g /\ "deps" \in DOMAIN g[n] THEN g[n].deps ELSE <<>>

\* The names of a raw mapping: its keys and the names its deps lists hold.
Mentioned(g) == DOMAIN g \cup UNION {Range(Listed(g, n)) : n \in DOMAIN g}

\* The names some deps list holds that are no key of the mapping.
Absent(g) == Mentioned(g) \ DOMAIN g

\* The names reachable from the names S along deps, S included.
RECURSIVE DepsClosure(_, _)
DepsClosure(g, S) ==
    LET T == S \cup UNION {Range(Listed(g, n)) : n \in S}
    IN  IF T = S THEN S ELSE DepsClosure(g, T)

\* The deps relation of the mapping has a cycle.
HasCycle(g) ==
    \E n \in DOMAIN g : n \in DepsClosure(g, Range(Listed(g, n)))

\* The keys whose data.status is "done" or "failed".
Finished(g) ==
    {n \in DOMAIN g :
        /\ "data" \in DOMAIN g[n]
        /\ "status" \in DOMAIN g[n].data
        /\ g[n].data.status \in {"done", "failed"}}

\* The names of the tasks in a list of tasks.
NamesOf(l) == [i \in 1..Len(l) |-> tasks[l[i]].name]

\* All tasks and edges are created and pruning has not begun.
Constructed == pc = "build" /\ pos = Len(order)

\* C1: edge symmetry. Right after all tasks and edges are created, after
\* every delete_task of pruning and after pruning, for all tasks A and B in
\* the name index, B occurs in A.dependencies as many times as A occurs in
\* B.predications.
C1_EdgeSymmetry ==
    (Constructed \/ pc = "prune" \/ pc = "done") =>
        \A A \in Held : \A B \in Held :
            Count(tasks[A].dependencies, B) = Count(tasks[B].predications, A)

\* Pruning is under way, a task is deleted and another delete is to come,
\* and two tasks still in the index are joined by an edge.
C1_Witness ==
    /\ pc = "prune"
    /\ run = "first"
    /\ inactive_tasks # {}
    /\ Cardinality(Held) < Len(tasks)
    /\ \E A \in Held : \E B \in Held : Count(tasks[A].dependencies, B) > 0

\* C2: closure correctness of pruning. When remove_inactive_tasks has
\* returned, the names in the index are the created names minus the done or
\* failed tasks and everything reachable from them along deps, and each name
\* is held by the task of that name.
C2_ClosureCorrectness ==
    pc = "done" =>
        /\ DOMAIN names_to_obj =
              Mentioned(tasks_structure)
                 \ DepsClosure(tasks_structure, Finished(tasks_structure))
        /\ \A n \in DOMAIN names_to_obj : tasks[names_to_obj[n]].name = n

\* A chain of three tasks, only the first of them done or failed, is pruned
\* whole.
C2_Witness ==
    /\ pc = "done"
    /\ run = "first"
    /\ Cardinality(Finished(tasks_structure)) = 1
    /\ Cardinality(DepsClosure(tasks_structure, Finished(tasks_structure))) = 3
    /\ names_to_obj = EmptyDict
    /\ \A n \in DOMAIN tasks_structure : Len(Listed(tasks_structure, n)) <= 1

\* Every name listed in the deps of the i-th name of l stands before it.
DepsFirst(g, l) ==
    \A i \in 1..Len(l) : \A k \in Range(Listed(g, l[i])) :
        \E j \in 1..(i - 1) : l[j] = k

\* C3: the order of topological_sort, reversed by the builder, has every
\* dependency before every task that lists it, whatever names the set pops;
\* so no names_to_obj[dep] lookup of TaskDAG.__init__ raises KeyError.
C3_DependenciesFirst ==
    /\ pc = "build" => DepsFirst(tasks_structure, order)
    /\ err # "KeyError: names_to_obj[dep]"

\* Three tasks are built, one of them on two others, and one of the two on
\* the other.
C3_Witness ==
    /\ Constructed
    /\ run = "first"
    /\ Len(order) = 3
    /\ \E n \in DOMAIN tasks_structure : \E m \in DOMAIN tasks_structure :
          /\ n # m
          /\ Cardinality(Range(Listed(tasks_structure, n))) = 2
          /\ m \in Range(Listed(tasks_structure, n))
          /\ Len(Listed(tasks_structure, m)) > 0

\* The sequencer can take a step.
SortCanStep ==
    ENABLED (SortPop \/ DfsCycle \/ DfsSkip \/ DfsDescend \/ DfsReturn)

\* C4: on an input whose deps relation has a cycle, whatever names the set
\* pops, the sequencer never returns an order: it walks on until it raises
\* the cycle error; no Task is created and no graph is returned.
C4_CycleRejected ==
    HasCycle(tasks_structure) =>
        /\ tasks = <<>>
        /\ names_to_obj = EmptyDict
        /\ \/ pc = "sort" /\ SortCanStep
           \/ pc = "error" /\ err = "ValueError: Graph contains cycle"

\* The cycle error is raised in a nested call of dfs, on an input in which
\* a task lists itself.
C4_Witness ==
    /\ pc = "error"
    /\ err = "ValueError: Graph contains cycle"
    /\ Len(stack) >= 2
    /\ \E n \in DOMAIN tasks_structure : n \in Range(Listed(tasks_structure, n))

Edges(index) ==
    UNION {{<<n, tasks[d].name>> : d \in Range(tasks[index[n]].dependencies)} :
              n \in DOMAIN index}

\* C6: round trip. Building a graph from to_dict() of a constructed graph
\* raises no error and yields a graph with the names and the dependency
\* edges of the first one.
C6_RoundTrip ==
    run = "rebuild" =>
        /\ pc # "error"
        /\ pc = "done" =>
              /\ DOMAIN names_to_obj = DOMAIN first_graph
              /\ Edges(names_to_obj) = Edges(first_graph)

\* A second graph is built from a first one that has lost tasks to pruning
\* and has kept an edge.
C6_Witness ==
    /\ run = "rebuild"
    /\ pc = "done"
    /\ Edges(first_graph) # {}
    /\ Len(tasks) > 2 * Cardinality(DOMAIN first_graph)
    /\ Held \cap {first_graph[n] : n \in DOMAIN first_graph} = {}

\* C7: pruning is idempotent. remove_inactive_tasks called on a constructed
\* graph finds nothing to delete and changes no task and no index entry.
C7_PruneIdempotent ==
    [][run' = "reprune" =>
          /\ inactive_tasks' = {}
          /\ tasks' = tasks
          /\ names_to_obj' = names_to_obj
          /\ pc' # "error"]_vars

\* The second pruning has returned, on a graph that lost a task to the first
\* pruning and kept an edge.
C7_Witness ==
    /\ run = "reprune"
    /\ pc = "done"
    /\ Cardinality(Held) < Len(tasks)
    /\ Edges(names_to_obj) # {}

\* C8: referential closure. In a constructed graph every entry of the
\* dependencies and predications lists of a task in the index is a task in
\* the index, and every name in a deps list of to_dict() is a key of it.
C8_ReferentialClosure ==
    pc = "done" =>
        /\ \A t \in Held :
              /\ Range(tasks[t].dependencies) \subseteq Held
              /\ Range(tasks[t].predications) \subseteq Held
        /\ \A n \in DOMAIN to_dict(tasks, names_to_obj) :
              Range(to_dict(tasks, names_to_obj)[n].deps)
                 \subseteq DOMAIN to_dict(tasks, names_to_obj)

\* A task is left in the graph whose input deps name a pruned task.
C8_Witness ==
    /\ pc = "done"
    /\ run = "first"
    /\ \E n \in DOMAIN names_to_obj :
          \E k \in Range(Listed(tasks_structure, n)) :
             k \notin DOMAIN names_to_obj

\* The listed deps of a name that are still in the index, in their order.
ListedAndLeft(n) ==
    LET Left(k) == k \in DOMAIN names_to_obj
    IN  SelectSeq(Listed(tasks_structure, n), Left)

Graph(heap, index) ==
    [n \in DOMAIN index |->
        [task |-> index[n],
         dependencies |-> heap[index[n]].dependencies,
         predications |-> heap[index[n]].predications]]

\* delete_task applied to the tasks of rest one after the other, oldest task
\* first: the graph it ends in, and whether all of it went without error.
RECURSIVE OldestFirst(_, _, _)
OldestFirst(heap, index, rest) ==
    IF rest = {} THEN [ok |-> TRUE, graph |-> Graph(heap, index)]
    ELSE LET task == CHOOSE t \in rest : \A u \in rest : t <= u
             r == delete(heap, task)
         IN  IF ~r.ok \/ heap[task].name \notin DOMAIN index
             THEN [ok |-> FALSE, graph |-> Graph(r.heap, index)]
             ELSE OldestFirst(r.heap, Del(index, heap[task].name),
                              rest \ {task})

\* C10: the order of deletion does not matter. Whichever task of the removal
\* set delete_task takes next, deleting the rest of the set oldest first
\* ends in the graph that deleting the whole set oldest first would have
\* ended in; so every order ends in that one graph.
C10_DeletionOrderIrrelevant ==
    [][(pc = "prune" /\ pc' \in {"prune", "done"}) =>
          OldestFirst(tasks', names_to_obj', inactive_tasks')
             = OldestFirst(tasks, names_to_obj, inactive_tasks)]_vars

\* Pruning has deleted a task before an older one of the removal set, and a
\* task that listed the deleted one is to stay.
C10_Witness ==
    /\ pc = "prune"
    /\ run = "first"
    /\ \E t \in inactive_tasks : \E u \in 1..Len(tasks) :
          u > t /\ u \notin Held /\ u \notin inactive_tasks
    /\ \E n \in DOMAIN names_to_obj :
          /\ names_to_obj[n] \notin inactive_tasks
          /\ \E k \in Range(Listed(tasks_structure, n)) :
                k \notin DOMAIN names_to_obj

\* The edge statements of the rendering.
EdgeStatements ==
    LET dot == translate_to_dot(tasks, names_to_obj)
    IN  {i \in 1..Len(dot) : dot[i].kind = "edge"}

\* C11, as claimed: in the rendering of a constructed graph the node
\* identifiers of the tasks differ from one another; for every task T and
\* every task D in T.dependencies there is exactly one edge statement from
\* D's identifier to T's; and every edge statement is that of such a pair.
C11_OneStatementPerEdge ==
    pc = "done" =>
        LET dot == translate_to_dot(tasks, names_to_obj)
            ids == task_names_to_ids_mapping(tasks, names_to_obj)
        IN  /\ \A n \in DOMAIN ids : \A m \in DOMAIN ids :
                  ids[n] = ids[m] => n = m
            /\ \A T \in DOMAIN names_to_obj : \A D \in DOMAIN names_to_obj :
                  names_to_obj[D] \in Range(tasks[names_to_obj[T]].dependencies)
                     => Cardinality({i \in EdgeStatements :
                                        /\ dot[i].from = ids[D]
                                        /\ dot[i].to = ids[T]}) = 1
            /\ \A i \in EdgeStatements :
                  \E T \in DOMAIN names_to_obj : \E D \in DOMAIN names_to_obj :
                     /\ dot[i].from = ids[D]
                     /\ dot[i].to = ids[T]
                     /\ names_to_obj[D]
                           \in Range(tasks[names_to_obj[T]].dependencies)

\* C12: print_orphan_nodes reports a name if and only if it is a key of the
\* raw mapping and no task's deps list holds it, whatever pruning does with
\* the graph built from the mapping; for {1: {deps: []}, 2: {deps: [1]}}
\* it reports 2 alone.
C12_Orphans ==
    /\ \A n \in Names :
          n \in print_orphan_nodes(tasks_structure)
             <=> /\ n \in DOMAIN tasks_structure
                 /\ \A m \in DOMAIN tasks_structure :
                       Count(Listed(tasks_structure, m), n) = 0
    /\ print_orphan_nodes(tasks_structure) \subseteq Names
    /\ DOMAIN tasks_structure = {1, 2}
         /\ Listed(tasks_structure, 1) = <<>>
         /\ Listed(tasks_structure, 2) = <<1>>
         => print_orphan_nodes(tasks_structure) = {2}

\* The orphans of a raw mapping are reported, one of them a task that
\* pruning has removed from the graph built from the mapping, while a task
\* that is listed by a task with no data and by none with data is not.
C12_Witness ==
    /\ pc = "done"
    /\ run = "first"
    /\ \E n \in print_orphan_nodes(tasks_structure) :
          n \notin DOMAIN names_to_obj
    /\ \E n \in DOMAIN tasks_structure :
          /\ n \notin print_orphan_nodes(tasks_structure)
          /\ n \in print_orphan_nodes_of_finished(tasks_structure)

\* C13: on a constructed graph find_current_tasks returns the tasks of the
\* index whose dependencies list is empty and find_final_tasks those whose
\* predications list is empty, each of them once and no other task.
C13_CurrentAndFinal ==
    pc = "done" =>
        LET current == find_current_tasks(tasks, names_to_obj)
            final == find_final_tasks(tasks, names_to_obj)
        IN  /\ \A t \in 1..Len(tasks) :
                  /\ Count(current, t) =
                        IF t \in Held /\ Len(tasks[t].dependencies) = 0
                        THEN 1 ELSE 0
                  /\ Count(final, t) =
                        IF t \in Held /\ Len(tasks[t].predications) = 0
                        THEN 1 ELSE 0
            /\ Range(current) \cup Range(final) \subseteq 1..Len(tasks)

\* A constructed graph of three tasks in a chain: one current task, one
\* final task, and one that is neither.
C13_Witness ==
    /\ pc = "done"
    /\ run = "first"
    /\ Cardinality(Held) = 3
    /\ Len(find_current_tasks(tasks, names_to_obj)) = 1
    /\ Len(find_final_tasks(tasks, names_to_obj)) = 1
    /\ Range(find_current_tasks(tasks, names_to_obj))
          # Range(find_final_tasks(tasks, names_to_obj))

\* C14, as claimed: in a constructed graph no task occurs twice in the
\* dependencies of a task, and no task twice in the predications of a task.
C14_NoMultiEdges ==
    pc = "done" =>
        \A A \in Held : \A B \in Held :
            /\ Count(tasks[A].dependencies, B) <= 1
            /\ Count(tasks[B].predications, A) <= 1

\* The name lies on a cycle of the deps relation.
OnCycle(g, n) == n \in DepsClosure(g, Range(Listed(g, n)))

\* The names the message of the cycle error holds as one of its words.
NamedInMessage ==
    {n \in Mentioned(tasks_structure) : ToString(n) \in Range(cycle_message)}

\* The sequencer has raised the cycle error.
CycleRaised == pc = "error" /\ err = "ValueError: Graph contains cycle"

\* C15, as claimed: the cycle error names a node that lies on a cycle.
C15_ErrorNamesCycleNode ==
    CycleRaised =>
        \E n \in NamedInMessage : OnCycle(tasks_structure, n)

\* C15, amended: the cycle error carries a fixed message that names no
\* node. It is raised in the call of dfs for a node that lies on a cycle,
\* on meeting a dep that lies on that cycle: each of the two is reachable
\* from the other along deps.
C15_RaisedOnCycle ==
    CycleRaised =>
        /\ NamedInMessage = {}
        /\ stack # <<>>
        /\ Top.i <= Len(DfsDeps(tasks_structure, Top.node))
        /\ LET node == Top.node
               k == DfsDeps(tasks_structure, Top.node)[Top.i]
           IN  /\ OnCycle(tasks_structure, node)
               /\ node \in DepsClosure(tasks_structure, {k})
               /\ k \in DepsClosure(tasks_structure, {node})

\* The cycle error is raised on a cycle of three tasks, in the innermost of
\* three calls of dfs.
C15_Witness ==
    /\ CycleRaised
    /\ Len(stack) = 3
    /\ \A n \in DOMAIN tasks_structure :
          n \notin Range(Listed(tasks_structure, n))

\* dfs is about to look at a dep.
AtDep == pc = "sort" /\ stack # <<>>
            /\ Top.i <= Len(DfsDeps(tasks_structure, Top.node))

\* C16: no false cycle report. When dfs meets a GRAY name, the deps relation
\* has a cycle through that name; on an input without a cycle the sequencer
\* raises nothing, and walks on until it returns an order.
C16_NoFalseCycle ==
    /\ (AtDep /\ IsGray(state, DfsDeps(tasks_structure, Top.node)[Top.i]))
          => OnCycle(tasks_structure, DfsDeps(tasks_structure, Top.node)[Top.i])
    /\ ~HasCycle(tasks_structure) =>
          /\ ~CycleRaised
          /\ pc = "sort" => (SortCanStep \/ ENABLED SortReturn)

\* The sequencer has returned an order for three tasks, one of which is
\* listed by both others, so that dfs has met it again when it was BLACK or
\* has started anew from a name whose deps were walked already.
C16_Witness ==
    /\ pc = "build"
    /\ run = "first"
    /\ Cardinality(DOMAIN tasks_structure) = 3
    /\ \E n \in DOMAIN tasks_structure : \E m \in DOMAIN tasks_structure :
          \E k \in DOMAIN tasks_structure :
             /\ n # m /\ m # k /\ n # k
             /\ Listed(tasks_structure, n) = <<m, k>>
             /\ Listed(tasks_structure, m) = <<k>>

\* C17: the order the sequencer returns holds every key of the input once
\* (and every name once that only a deps list holds); TaskDAG.__init__ calls
\* add_task once for each name of the order, and never for a name that is
\* in the index already: after pos rounds the index holds pos names, each
\* with a task of its own that bears the name.
C17_EachNameOnce ==
    pc = "build" =>
        /\ \A n \in DOMAIN tasks_structure : Count(order, n) = 1
        /\ \A n \in Range(order) :
              n \in Mentioned(tasks_structure) /\ Count(order, n) = 1
        /\ DOMAIN names_to_obj = {order[i] : i \in 1..pos}
        /\ Cardinality(DOMAIN names_to_obj) = pos
        /\ Cardinality(Held) = pos
        /\ \A n \in DOMAIN names_to_obj : tasks[names_to_obj[n]].name = n

\* Three tasks are built from an order that dfs filled by descending from a
\* task into its deps.
C17_Witness ==
    /\ Constructed
    /\ run = "first"
    /\ Cardinality(DOMAIN names_to_obj) = 3
    /\ \E n \in DOMAIN tasks_structure :
          \E k \in Range(Listed(tasks_structure, n)) :
             k \in DOMAIN tasks_structure /\ Listed(tasks_structure, k) # <<>>

\* C18: no step of pruning fails. While the removal set is worked off, in
\* whatever order, each of its tasks can be deleted: every list that
\* Task.delete removes the task from holds it, and the task is in the index
\* under its name; no remove raises ValueError and no del raises KeyError.
C18_DeletionNeverFails ==
    /\ pc = "prune" =>
          \A task \in inactive_tasks :
             /\ delete(tasks, task).ok
             /\ tasks[task].name \in DOMAIN names_to_obj
             /\ names_to_obj[tasks[task].name] = task
    /\ err # "ValueError: list.remove(x): x not in list"
    /\ err # "KeyError: del names_to_obj[task.name]"

\* Pruning has deleted two tasks, one of which listed the other twice.
C18_Witness ==
    /\ pc = "done"
    /\ run = "first"
    /\ \E a \in 1..Len(tasks) : \E b \in 1..Len(tasks) :
          /\ a \notin Held
          /\ b \notin Held
          /\ Count(tasks[a].dependencies, b) = 2

\* What the sequencer has left to do: for each name not yet entered, its
\* call of dfs, its return and its deps; for each call of dfs under way, its
\* return and the deps it has not looked at.
RECURSIVE NotEntered(_, _)
NotEntered(g, S) ==
    IF S = {} THEN 0
    ELSE LET n == CHOOSE m \in S : TRUE
         IN  2 + Len(Listed(g, n)) + NotEntered(g, S \ {n})

RECURSIVE NotLooked(_, _)
NotLooked(g, frames) ==
    IF frames = <<>> THEN 0
    ELSE 1 + (Len(Listed(g, Head(frames).node)) + 1 - Head(frames).i)
           + NotLooked(g, Tail(frames))

SortMeasure ==
    NotEntered(tasks_structure, Mentioned(tasks_structure) \ DOMAIN state)
       + NotLooked(tasks_structure, stack)

\* The tasks reachable from the tasks S along dependencies, S included.
RECURSIVE TaskClosure(_)
TaskClosure(S) ==
    LET T == S \cup UNION {Range(tasks[t].dependencies) : t \in S}
    IN  IF T = S THEN S ELSE TaskClosure(T)

\* C19: construction terminates. A construction that has begun comes to its
\* end, with a graph or with an error. Every step of the sequencer lessens
\* what it has left to do, which is never less than nothing, and the
\* sequencer can always step until it returns or raises; dfs is called once
\* for a name: the names entered are those of the calls under way and of
\* the order, each once. When go_down is called, no task of the graph
\* reaches itself along dependencies, and go_down(task) ends with the tasks
\* reachable from the task.
C19_Terminates ==
    /\ (pc = "sort") ~> (pc = "done" \/ pc = "error")
    /\ [](pc = "sort" =>
            /\ SortMeasure >= 0
            /\ SortCanStep \/ ENABLED SortReturn
            /\ Len(order) + Len(stack) = Cardinality(DOMAIN state)
            /\ Cardinality(Range(order) \cup {stack[i].node : i \in 1..Len(stack)})
                  = Cardinality(DOMAIN state))
    /\ [][(pc = "sort" /\ pc' = "sort") => SortMeasure' < SortMeasure]_vars
    /\ []((Constructed \/ pc = "done") =>
            \A t \in Held :
               /\ t \notin TaskClosure(Range(tasks[t].dependencies))
               /\ Range(go_down(tasks, t)) = TaskClosure({t}))

\* The sequencer has returned an order of three names after calls of dfs
\* three deep, and go_down is to walk a chain of three tasks.
C19_Witness ==
    /\ Constructed
    /\ run = "first"
    /\ \E t \in Held : Len(go_down(tasks, t)) = 3 /\ Cardinality(TaskClosure({t})) = 3
    /\ \E n \in DOMAIN tasks_structure : is_inactive(tasks[names_to_obj[n]])

=============================================================================
